---------------------------- MODULE Spec2Model ----------------------------
(***************************************************************************)
(* TSL UMD protocol tester: the codec (TslBuilder / TslParser), the        *)
(* DLE/STX framer and the TCP receive path (TcpServer / TcpClient).        *)
(*                                                                         *)
(* A Buffer is a sequence of bytes 0..255; the code's 0-based index i is   *)
(* element i+1 of the sequence.  A string is a sequence of UTF-16 code     *)
(* units.  A message is a record tagged by its version; the code's null    *)
(* is the record Null.                                                     *)
(***************************************************************************)
EXTENDS Integers, Sequences, FiniteSets, TLC

VARIABLES
    pc,            \* position of the codec call sequence
    message,       \* the message handed to the builder
    buffer,        \* the Buffer built, received or altered
    version,       \* result of TslParser.detectVersion(buffer)
    parsed,        \* result of TslParser.parse(buffer)
    payload,       \* the Buffer handed to wrapForTcp
    wrapped,       \* result of wrapForTcp
    unwrapped,     \* result of unwrapFromTcp
    endpoint,      \* which reassembler receives: "TcpServer" or "TcpClient"
    sent,          \* what was written to the stream: the messages (SpecTcp) or
                   \* every byte received so far, in arrival order (SpecStream)
    pending,       \* bytes of the stream not yet delivered
    chunks,        \* number of 'data' events delivered so far
    receiveBuffer, \* the endpoint's receiveBuffer field
    emitted,       \* the 'packet' events emitted so far, in order
    origin,        \* for each byte of receiveBuffer, the connection it came from
    last,          \* the latest handleData call: its connection, chunk, buffer
                   \* after the append, passes and packets
    running,       \* the `running` field of a UdpServer or TcpServer
    socket,        \* its `socket` / `server` field: a socket id, 0 for null
    opened,        \* the sockets the instance created that are not closed
    binding,       \* the sockets whose bind / listen has not completed
    calls          \* number of start() and stop() calls made so far

vars == <<pc, message, buffer, version, parsed, payload, wrapped, unwrapped,
          endpoint, sent, pending, chunks, receiveBuffer, emitted, origin,
          last, running, socket, opened, binding, calls>>

codecVars == <<pc, message, buffer, version, parsed>>
framerVars == <<payload, wrapped, unwrapped>>
tcpVars == <<endpoint, sent, pending, chunks, receiveBuffer, emitted, origin,
            last>>
lifeVars == <<running, socket, opened, binding, calls>>

-----------------------------------------------------------------------------
(* Values of the types module.                                             *)

V3_1 == "3.1"
V4_0 == "4.0"
V5_0 == "5.0"
NoVersion == "null"

Null == [version |-> NoVersion]

\* The code's `null` Buffer (unwrapFromTcp found no delimiter).
NoBuffer == <<-1>>

DLE == 254
STX == 2
HeaderMin == 128
HeaderMax == 254
SPACE == 32

-----------------------------------------------------------------------------
(* Buffer and string primitives.                                           *)

Min(a, b) == IF a < b THEN a ELSE b

\* buffer[i], 0-based
At(b, i) == b[i + 1]

\* buffer.slice(from, to) / string.slice(from, to), 0-based, end exclusive
slice(b, from, to) == SubSeq(b, from + 1, Min(to, Len(b)))

readUInt16LE(b, offset) == At(b, offset) + 256 * At(b, offset + 1)

\* the two bytes writeUInt16LE stores for a value in 0..65535
writeUInt16LE(value) == <<value % 256, (value \div 256) % 256>>

\* text.padEnd(n, ' ')
padEnd(text, n) ==
    IF Len(text) >= n THEN text
    ELSE text \o [i \in 1..(n - Len(text)) |-> SPACE]

\* Buffer.from(text, 'ascii') and buffer.write(text, .., 'ascii'):
\* one byte per code unit, its low 8 bits
asciiEncode(text) == [i \in 1..Len(text) |-> text[i] % 256]

\* buffer.toString('ascii'): the high bit of every byte is dropped
asciiDecode(b) == [i \in 1..Len(b) |-> b[i] % 128]

\* Buffer.from(text, 'utf16le'): two bytes per code unit, low byte first
utf16leEncode(text) ==
    [i \in 1..(2 * Len(text)) |->
        IF i % 2 = 1 THEN text[(i + 1) \div 2] % 256
        ELSE (text[i \div 2] \div 256) % 256]

\* buffer.toString('utf16le'): byte pairs; an odd trailing byte is dropped
utf16leDecode(b) ==
    [i \in 1..(Len(b) \div 2) |-> b[2 * i - 1] + 256 * b[2 * i]]

\* .replace(/[\x00-\x1F\x7F]/g, ' ')
replaceControl(text) ==
    [i \in 1..Len(text) |->
        IF text[i] <= 31 \/ text[i] = 127 THEN SPACE ELSE text[i]]

RECURSIVE SumBytes(_, _)
\* let sum = 0; for (i = 0; i < n; i++) sum += buffer[i]
SumBytes(b, n) == IF n = 0 THEN 0 ELSE SumBytes(b, n - 1) + At(b, n - 1)

\* ((~sum + 1) & 0x7F): ~sum is -sum - 1 in two's complement
checksum18(b) == (((0 - SumBytes(b, 18)) - 1) + 1) % 128

-----------------------------------------------------------------------------
(* TslBuilder                                                              *)

Bit(flag, weight) == IF flag THEN weight ELSE 0

\* buildV31 with the brightness shifted by five bits instead of four
buildV31_BrightnessShift5(m) ==
    LET control == Bit(m.tally1, 1) + Bit(m.tally2, 2) + Bit(m.tally3, 4)
                   + Bit(m.tally4, 8) + (m.brightness % 4) * 32
        text == slice(padEnd(m.displayText, 16), 0, 16)
    IN  <<(m.address + 128) % 256, control % 256>> \o asciiEncode(text)

buildV31(m) ==
    LET control == Bit(m.tally1, 1) + Bit(m.tally2, 2) + Bit(m.tally3, 4)
                   + Bit(m.tally4, 8) + (m.brightness % 4) * 16
        text == slice(padEnd(m.displayText, 16), 0, 16)
    IN  <<(m.address + 128) % 256, control % 256>> \o asciiEncode(text)

buildTallyByte(display) ==
    (display.leftTally % 4) * 16 + (display.textTally % 4) * 4
    + (display.rightTally % 4)

\* buildV40 with the checksum masked to eight bits instead of seven
buildV40_Checksum8(m) ==
    LET v31Buffer == buildV31(m)
    IN  v31Buffer
        \o <<(0 - SumBytes(v31Buffer, 18)) % 256, 2,
             buildTallyByte(m.leftDisplay), buildTallyByte(m.rightDisplay)>>

buildV40(m) ==
    LET v31Buffer == buildV31(m)
    IN  v31Buffer
        \o <<checksum18(v31Buffer), 2,
             buildTallyByte(m.leftDisplay), buildTallyByte(m.rightDisplay)>>

textBytes(m, display) ==
    IF m.flags.unicode THEN utf16leEncode(display.text)
    ELSE asciiEncode(display.text)

RECURSIVE displaysSize(_, _)
\* the first loop of buildV50: sum of 6 + textBytes.length
displaysSize(m, n) ==
    IF n = 0 THEN 0
    ELSE displaysSize(m, n - 1) + 6 + Len(textBytes(m, m.displays[n]))

buildDisplay(m, display) ==
    LET control == (display.rightTally % 4) + (display.textTally % 4) * 4
                   + (display.leftTally % 4) * 16 + (display.brightness % 4) * 64
    IN  writeUInt16LE(display.index) \o writeUInt16LE(control)
        \o writeUInt16LE(Len(textBytes(m, display))) \o textBytes(m, display)

RECURSIVE buildDisplays(_, _)
\* the second loop of buildV50
buildDisplays(m, n) ==
    IF n = 0 THEN <<>>
    ELSE buildDisplays(m, n - 1) \o buildDisplay(m, m.displays[n])

\* buildV50 writing the whole length as the PBC
buildV50_PbcTotal(m) ==
    LET dataSize == 4 + displaysSize(m, Len(m.displays))
        flags == Bit(m.flags.unicode, 1) + Bit(m.flags.screenControl, 2)
    IN  writeUInt16LE(2 + dataSize) \o <<m.minorVersion % 256, flags>>
        \o writeUInt16LE(m.screen) \o buildDisplays(m, Len(m.displays))

buildV50(m) ==
    LET dataSize == 4 + displaysSize(m, Len(m.displays))
        flags == Bit(m.flags.unicode, 1) + Bit(m.flags.screenControl, 2)
    IN  writeUInt16LE(dataSize) \o <<m.minorVersion % 256, flags>>
        \o writeUInt16LE(m.screen) \o buildDisplays(m, Len(m.displays))

\* dispatch of the builder on the message's version tag
build(m) ==
    CASE m.version = V3_1 -> buildV31(m)
      [] m.version = V4_0 -> buildV40(m)
      [] m.version = V5_0 -> buildV50(m)

\* the copy loop of wrapForTcp without the byte stuffing
stuff_Plain(b) == b

RECURSIVE stuff(_)
\* the copy loop of wrapForTcp: every DLE is written twice
stuff(b) ==
    IF b = <<>> THEN <<>>
    ELSE (IF b[1] = DLE THEN <<DLE, DLE>> ELSE <<b[1]>>) \o stuff(Tail(b))

wrapForTcp(b) == <<DLE, STX>> \o stuff(b)

RECURSIVE findStart_StopEarly(_, _)
\* findStart whose search stops one index early
findStart_StopEarly(b, i) ==
    IF i >= Len(b) - 2 THEN -1
    ELSE IF At(b, i) = DLE /\ At(b, i + 1) = STX THEN i + 2
    ELSE findStart_StopEarly(b, i + 1)

RECURSIVE findStart(_, _)
\* the search loop of unwrapFromTcp from index i: i + 2 at the first
\* DLE,STX pair, -1 when i reaches buffer.length - 1
findStart(b, i) ==
    IF i >= Len(b) - 1 THEN -1
    ELSE IF At(b, i) = DLE /\ At(b, i + 1) = STX THEN i + 2
    ELSE findStart(b, i + 1)

RECURSIVE destuff_NoSkip(_, _)
\* destuff that pushes the DLE of a stuffed pair without skipping its twin
destuff_NoSkip(b, i) ==
    IF i >= Len(b) THEN <<>>
    ELSE IF At(b, i) = DLE /\ i + 1 < Len(b) /\ At(b, i + 1) = DLE
         THEN <<DLE>> \o destuff_NoSkip(b, i + 1)
         ELSE <<At(b, i)>> \o destuff_NoSkip(b, i + 1)

RECURSIVE destuff(_, _)
\* the second loop of unwrapFromTcp from index i
destuff(b, i) ==
    IF i >= Len(b) THEN <<>>
    ELSE IF At(b, i) = DLE /\ i + 1 < Len(b) /\ At(b, i + 1) = DLE
         THEN <<DLE>> \o destuff(b, i + 2)
         ELSE <<At(b, i)>> \o destuff(b, i + 1)

\* unwrapFromTcp that accepts the delimiter at the front of the buffer only
unwrapFromTcp_AtStart(b) ==
    IF Len(b) >= 2 /\ At(b, 0) = DLE /\ At(b, 1) = STX THEN destuff(b, 2)
    ELSE NoBuffer

unwrapFromTcp(b) ==
    LET start == findStart(b, 0)
    IN  IF start = -1 THEN NoBuffer ELSE destuff(b, start)

-----------------------------------------------------------------------------
(* TslParser                                                               *)

\* detectVersion comparing the PBC with the whole length
detectVersion_PbcIsLength(b) ==
    IF Len(b) < 2 THEN NoVersion
    ELSE IF Len(b) >= 6 /\ readUInt16LE(b, 0) = Len(b) THEN V5_0
    ELSE IF At(b, 0) >= HeaderMin /\ At(b, 0) <= HeaderMax
         THEN IF Len(b) > 18 /\ At(b, 18) = checksum18(b) THEN V4_0 ELSE V3_1
    ELSE NoVersion

\* detectVersion testing the header range before the PBC
detectVersion_HeaderFirst(b) ==
    IF Len(b) < 2 THEN NoVersion
    ELSE IF At(b, 0) >= HeaderMin /\ At(b, 0) <= HeaderMax
         THEN IF Len(b) > 18 /\ At(b, 18) = checksum18(b) THEN V4_0 ELSE V3_1
    ELSE IF Len(b) >= 6 /\ readUInt16LE(b, 0) = Len(b) - 2 THEN V5_0
    ELSE NoVersion

\* detectVersion accepting 0xFF as a header
detectVersion_HeaderFF(b) ==
    IF Len(b) < 2 THEN NoVersion
    ELSE IF Len(b) >= 6 /\ readUInt16LE(b, 0) = Len(b) - 2 THEN V5_0
    ELSE IF At(b, 0) >= HeaderMin /\ At(b, 0) <= HeaderMax + 1
         THEN IF Len(b) > 18 /\ At(b, 18) = checksum18(b) THEN V4_0 ELSE V3_1
    ELSE NoVersion

\* detectVersion comparing the checksum with byte 19
detectVersion_ChecksumAt19(b) ==
    IF Len(b) < 2 THEN NoVersion
    ELSE IF Len(b) >= 6 /\ readUInt16LE(b, 0) = Len(b) - 2 THEN V5_0
    ELSE IF At(b, 0) >= HeaderMin /\ At(b, 0) <= HeaderMax
         THEN IF Len(b) > 19 /\ At(b, 19) = checksum18(b) THEN V4_0 ELSE V3_1
    ELSE NoVersion

detectVersion(b) ==
    IF Len(b) < 2 THEN NoVersion
    ELSE IF Len(b) >= 6 /\ readUInt16LE(b, 0) = Len(b) - 2 THEN V5_0
    ELSE IF At(b, 0) >= HeaderMin /\ At(b, 0) <= HeaderMax
         THEN IF Len(b) > 18 /\ At(b, 18) = checksum18(b) THEN V4_0 ELSE V3_1
    ELSE NoVersion

parseV31(b) ==
    IF Len(b) < 18 THEN Null
    ELSE IF At(b, 0) < HeaderMin \/ At(b, 0) > HeaderMax THEN Null
    ELSE LET control == At(b, 1)
         IN  [version |-> V3_1,
              address |-> At(b, 0) - 128,
              tally1 |-> control % 2 = 1,
              tally2 |-> (control \div 2) % 2 = 1,
              tally3 |-> (control \div 4) % 2 = 1,
              tally4 |-> (control \div 8) % 2 = 1,
              brightness |-> (control \div 16) % 4,
              displayText |-> replaceControl(asciiDecode(slice(b, 2, 18)))]

\* parseTallyByte with the left and right fields exchanged
parseTallyByte_Swapped(byte) ==
    [leftTally |-> byte % 4,
     textTally |-> (byte \div 4) % 4,
     rightTally |-> (byte \div 16) % 4]

parseTallyByte(byte) ==
    [leftTally |-> (byte \div 16) % 4,
     textTally |-> (byte \div 4) % 4,
     rightTally |-> byte % 4]

parseV40(b) ==
    IF Len(b) < 22 THEN Null
    ELSE LET v31 == parseV31(b)
             xdataCount == At(b, 19) % 16
         IN  IF v31 = Null THEN Null
             ELSE IF At(b, 18) # checksum18(b) THEN Null
             ELSE IF Len(b) < 20 + xdataCount THEN Null
             ELSE [version |-> V4_0,
                   address |-> v31.address,
                   tally1 |-> v31.tally1,
                   tally2 |-> v31.tally2,
                   tally3 |-> v31.tally3,
                   tally4 |-> v31.tally4,
                   brightness |-> v31.brightness,
                   displayText |-> v31.displayText,
                   leftDisplay |-> parseTallyByte(At(b, 20)),
                   rightDisplay |-> parseTallyByte(At(b, 21))]

RECURSIVE walkDisplays_NoAdvance(_, _, _)
\* walkDisplays that forgets to step over the text of an entry
walkDisplays_NoAdvance(b, offset, unicode) ==
    IF ~(offset < Len(b)) THEN <<>>
    ELSE IF Len(b) - offset < 6 THEN <<>>
    ELSE LET index == readUInt16LE(b, offset)
             control == readUInt16LE(b, offset + 2)
             textLength == readUInt16LE(b, offset + 4)
             textAt == offset + 6
             raw == slice(b, textAt, textAt + textLength)
         IN  IF control >= 32768 THEN <<>>
             ELSE IF Len(b) - textAt < textLength THEN <<>>
             ELSE <<[index |-> index,
                     rightTally |-> control % 4,
                     textTally |-> (control \div 4) % 4,
                     leftTally |-> (control \div 16) % 4,
                     brightness |-> (control \div 64) % 4,
                     text |-> IF unicode THEN utf16leDecode(raw)
                              ELSE asciiDecode(raw)]>>
                  \o walkDisplays_NoAdvance(b, textAt, unicode)

RECURSIVE walkDisplays_SkipControl(_, _, _)
\* walkDisplays that steps over a control-data entry and goes on
walkDisplays_SkipControl(b, offset, unicode) ==
    IF ~(offset < Len(b)) THEN <<>>
    ELSE IF Len(b) - offset < 6 THEN <<>>
    ELSE LET index == readUInt16LE(b, offset)
             control == readUInt16LE(b, offset + 2)
             textLength == readUInt16LE(b, offset + 4)
             textAt == offset + 6
             raw == slice(b, textAt, textAt + textLength)
         IN  IF control >= 32768
             THEN walkDisplays_SkipControl(b, textAt, unicode)
             ELSE IF Len(b) - textAt < textLength THEN <<>>
             ELSE <<[index |-> index,
                     rightTally |-> control % 4,
                     textTally |-> (control \div 4) % 4,
                     leftTally |-> (control \div 16) % 4,
                     brightness |-> (control \div 64) % 4,
                     text |-> IF unicode THEN utf16leDecode(raw)
                              ELSE asciiDecode(raw)]>>
                  \o walkDisplays_SkipControl(b, textAt + textLength, unicode)

RECURSIVE walkDisplays(_, _, _)
\* the while loop of parseV50 from `offset`; the displays pushed from there on
walkDisplays(b, offset, unicode) ==
    IF ~(offset < Len(b)) THEN <<>>
    ELSE IF Len(b) - offset < 6 THEN <<>>
    ELSE LET index == readUInt16LE(b, offset)
             control == readUInt16LE(b, offset + 2)
             textLength == readUInt16LE(b, offset + 4)
             textAt == offset + 6
             raw == slice(b, textAt, textAt + textLength)
         IN  IF control >= 32768 THEN <<>>
             ELSE IF Len(b) - textAt < textLength THEN <<>>
             ELSE <<[index |-> index,
                     rightTally |-> control % 4,
                     textTally |-> (control \div 4) % 4,
                     leftTally |-> (control \div 16) % 4,
                     brightness |-> (control \div 64) % 4,
                     text |-> IF unicode THEN utf16leDecode(raw)
                              ELSE asciiDecode(raw)]>>
                  \o walkDisplays(b, textAt + textLength, unicode)

parseV50(b) ==
    IF Len(b) < 6 THEN Null
    ELSE IF readUInt16LE(b, 0) # Len(b) - 2 THEN Null
    ELSE LET flags == At(b, 3)
             unicode == flags % 2 = 1
             screenControl == (flags \div 2) % 2 = 1
         IN  [version |-> V5_0,
              packetByteCount |-> readUInt16LE(b, 0),
              minorVersion |-> At(b, 2),
              flags |-> [unicode |-> unicode, screenControl |-> screenControl],
              screen |-> readUInt16LE(b, 4),
              displays |-> IF screenControl THEN <<>>
                           ELSE walkDisplays(b, 6, unicode)]

parse(b) ==
    LET v == detectVersion(b)
    IN  CASE v = V3_1 -> parseV31(b)
          [] v = V4_0 -> parseV40(b)
          [] v = V5_0 -> parseV50(b)
          [] OTHER -> Null

-----------------------------------------------------------------------------
(* The buffer indices the parser reads, statement by statement, and the    *)
(* offsets the display walk of parseV50 passes through.                    *)

\* detectVersion: readUInt16LE(0), buffer[0], the checksum loop, buffer[18]
detectVersionReads(b) ==
    IF Len(b) < 2 THEN {}
    ELSE (IF Len(b) >= 6 THEN {0, 1} ELSE {})
         \cup (IF Len(b) >= 6 /\ readUInt16LE(b, 0) = Len(b) - 2 THEN {}
               ELSE {0} \cup (IF At(b, 0) >= HeaderMin /\ At(b, 0) <= HeaderMax
                                 /\ Len(b) > 18
                              THEN 0..18 ELSE {}))

\* parseV31: buffer[0], buffer[1], buffer.slice(2, 18)
parseV31Reads(b) ==
    IF Len(b) < 18 THEN {}
    ELSE {0} \cup (IF At(b, 0) < HeaderMin \/ At(b, 0) > HeaderMax THEN {}
                   ELSE 1..17)

\* parseV40 reading bytes 20 and 21 once 20 bytes are there
parseV40Reads_Guard20(b) ==
    IF Len(b) < 20 THEN {}
    ELSE parseV31Reads(b)
         \cup (IF parseV31(b) = Null THEN {}
               ELSE (0..18)
                    \cup (IF At(b, 18) # checksum18(b) THEN {}
                          ELSE {19} \cup (IF Len(b) < 20 + (At(b, 19) % 16) THEN {}
                                          ELSE {20, 21})))

\* parseV40: parseV31, the checksum loop, buffer[18], buffer[19], buffer[20],
\* buffer[21]
parseV40Reads(b) ==
    IF Len(b) < 22 THEN {}
    ELSE parseV31Reads(b)
         \cup (IF parseV31(b) = Null THEN {}
               ELSE (0..18)
                    \cup (IF At(b, 18) # checksum18(b) THEN {}
                          ELSE {19} \cup (IF Len(b) < 20 + (At(b, 19) % 16) THEN {}
                                          ELSE {20, 21})))

RECURSIVE walkReads(_, _)
\* the while loop of parseV50 from `offset`: index, control, textLength, text
walkReads(b, offset) ==
    IF ~(offset < Len(b)) THEN {}
    ELSE IF Len(b) - offset < 6 THEN {}
    ELSE LET control == readUInt16LE(b, offset + 2)
             textLength == readUInt16LE(b, offset + 4)
             textAt == offset + 6
         IN  (offset..(offset + 3))
             \cup (IF control >= 32768 THEN {}
                   ELSE {offset + 4, offset + 5}
                        \cup (IF Len(b) - textAt < textLength THEN {}
                              ELSE (textAt..(textAt + textLength - 1))
                                   \cup walkReads(b, textAt + textLength)))

RECURSIVE walkOffsets(_, _)
\* the values of `offset` at the top of each iteration the loop enters
walkOffsets(b, offset) ==
    IF ~(offset < Len(b)) THEN <<>>
    ELSE IF Len(b) - offset < 6 THEN <<offset>>
    ELSE LET control == readUInt16LE(b, offset + 2)
             textLength == readUInt16LE(b, offset + 4)
             textAt == offset + 6
         IN  IF control >= 32768 THEN <<offset>>
             ELSE IF Len(b) - textAt < textLength THEN <<offset>>
             ELSE <<offset>> \o walkOffsets(b, textAt + textLength)

\* parseV50: the header reads, then the walk unless screenControl is set
parseV50Reads(b) ==
    IF Len(b) < 6 THEN {}
    ELSE {0, 1}
         \cup (IF readUInt16LE(b, 0) # Len(b) - 2 THEN {}
               ELSE {2, 3, 4, 5}
                    \cup (IF (At(b, 3) \div 2) % 2 = 1 THEN {}
                          ELSE walkReads(b, 6)))

\* parse: detectVersion, then the parser of the version found
parseReads(b) ==
    LET v == detectVersion(b)
    IN  detectVersionReads(b)
        \cup (CASE v = V3_1 -> parseV31Reads(b)
                [] v = V4_0 -> parseV40Reads(b)
                [] v = V5_0 -> parseV50Reads(b)
                [] OTHER -> {})

-----------------------------------------------------------------------------
(* Inputs of the codec: bounded sets of valid messages.                    *)

MaxTextLen == 18
MaxDisplays == 2

CAM1 == <<67, 65, 77, 32, 49>>

\* n consecutive printable characters starting at `first`
Letters(first, n) == [i \in 1..n |-> first + i - 1]

\* shorter than 16, exactly 16, longer than 16; all printable ASCII
FixedTexts == {CAM1, Letters(65, 16), Letters(97, MaxTextLen)}

Addresses == {0, 1, 126}

TallyStates == 0..3
BrightnessValues == 0..3

V31Messages ==
    [version : {V3_1}, address : Addresses,
     tally1 : BOOLEAN, tally2 : BOOLEAN, tally3 : BOOLEAN, tally4 : BOOLEAN,
     brightness : BrightnessValues, displayText : FixedTexts]

Triple(l, t, r) == [leftTally |-> l, textTally |-> t, rightTally |-> r]

V40Messages ==
    [version : {V4_0}, address : Addresses,
     tally1 : BOOLEAN, tally2 : BOOLEAN, tally3 : BOOLEAN, tally4 : BOOLEAN,
     brightness : BrightnessValues, displayText : FixedTexts,
     leftDisplay : {Triple(0, 0, 0), Triple(1, 2, 3)},
     rightDisplay : {Triple(0, 0, 0), Triple(3, 0, 2)}]

\* a text whose single display gives a packet byte count of exactly 0x80
LongText == [i \in 1..(HeaderMin - 10) |-> 120]

Display(i, l, t, r, b, text) ==
    [index |-> i, rightTally |-> r, textTally |-> t, leftTally |-> l,
     brightness |-> b, text |-> text]

V50Displays ==
    {Display(0, 0, 0, 0, 3, CAM1),
     Display(65534, 1, 2, 3, 1, <<>>),
     Display(258, 2, 1, 0, 0, LongText),
     Display(1, 3, 3, 1, 2, <<9786, 65>>)}

RECURSIVE SeqsUpTo(_, _)
\* all sequences over S of length 0..n
SeqsUpTo(S, n) ==
    IF n = 0 THEN {<<>>}
    ELSE LET shorter == SeqsUpTo(S, n - 1)
         IN  shorter \cup {Append(q, x) : q \in shorter, x \in S}

\* text is ASCII unless the unicode flag selects UTF-16
ValidText(unicode, text) == unicode \/ \A i \in 1..Len(text) : text[i] < 128

ValidV50(m) ==
    \A i \in 1..Len(m.displays) : ValidText(m.flags.unicode, m.displays[i].text)

\* a message as createSimpleV50 makes it (packetByteCount 0, "will be
\* calculated") or carrying the byte count of its own encoding
V50Messages ==
    {m \in [version : {V5_0}, packetByteCount : {0}, minorVersion : {0, 255},
            flags : [unicode : BOOLEAN, screenControl : BOOLEAN],
            screen : {0, 65535},
            displays : SeqsUpTo(V50Displays, MaxDisplays)] : ValidV50(m)}
    \cup
    {[m EXCEPT !.packetByteCount = 4 + displaysSize(m, Len(m.displays))] :
        m \in {x \in [version : {V5_0}, packetByteCount : {0},
                      minorVersion : {0, 255},
                      flags : [unicode : BOOLEAN, screenControl : BOOLEAN],
                      screen : {0, 65535},
                      displays : SeqsUpTo(V50Displays, MaxDisplays)] :
                  ValidV50(x)}}

\* values written over one byte of a built buffer
MutationValues == {20, 127}

\* values of a byte appended to a built buffer
PadValues == {0, 255}

-----------------------------------------------------------------------------
(* Idle values of the variables a specification does not use.              *)

CodecIdle ==
    /\ message = Null /\ buffer = <<>> /\ version = NoVersion /\ parsed = Null

FramerIdle == payload = <<>> /\ wrapped = <<>> /\ unwrapped = NoBuffer

\* no handleData call has been made yet
NoCall == [conn |-> 0]

LifeIdle ==
    /\ running = FALSE /\ socket = 0 /\ opened = {} /\ binding = {}
    /\ calls = 0

TcpIdle ==
    /\ endpoint = "none" /\ sent = <<>> /\ pending = <<>> /\ chunks = 0
    /\ receiveBuffer = <<>> /\ emitted = <<>>
    /\ origin = <<>> /\ last = NoCall

-----------------------------------------------------------------------------
(* SpecCodec: a message is built, the buffer is possibly altered in        *)
(* transit, and the result is handed to TslParser.parse.                   *)

InitCodec ==
    /\ pc = "input"
    /\ message \in V31Messages \cup V40Messages \cup V50Messages
    /\ buffer = <<>> /\ version = NoVersion /\ parsed = Null
    /\ FramerIdle /\ TcpIdle /\ LifeIdle

BuildV31 ==
    /\ pc = "input" /\ message.version = V3_1
    /\ buffer' = buildV31(message)
    /\ pc' = "built"
    /\ UNCHANGED <<message, version, parsed, framerVars, tcpVars,
                   lifeVars>>

BuildV40 ==
    /\ pc = "input" /\ message.version = V4_0
    /\ buffer' = buildV40(message)
    /\ pc' = "built"
    /\ UNCHANGED <<message, version, parsed, framerVars, tcpVars,
                   lifeVars>>

BuildV50 ==
    /\ pc = "input" /\ message.version = V5_0
    /\ buffer' = buildV50(message)
    /\ pc' = "built"
    /\ UNCHANGED <<message, version, parsed, framerVars, tcpVars,
                   lifeVars>>

\* one of bytes 0..17 of a V4.0 buffer is replaced by a different value
Mutate ==
    /\ pc = "built" /\ message.version = V4_0
    /\ \E i \in 0..17, v \in MutationValues :
          /\ v # At(buffer, i)
          /\ buffer' = [buffer EXCEPT ![i + 1] = v]
    /\ pc' = "mutated"
    /\ UNCHANGED <<message, version, parsed, framerVars, tcpVars,
                   lifeVars>>

\* the last byte of a V5.0 buffer is lost
Truncate ==
    /\ pc = "built" /\ message.version = V5_0
    /\ buffer' = slice(buffer, 0, Len(buffer) - 1)
    /\ pc' = "truncated"
    /\ UNCHANGED <<message, version, parsed, framerVars, tcpVars,
                   lifeVars>>

\* one extra byte follows a V5.0 buffer
Pad ==
    /\ pc = "built" /\ message.version = V5_0
    /\ \E v \in PadValues : buffer' = Append(buffer, v)
    /\ pc' = "padded"
    /\ UNCHANGED <<message, version, parsed, framerVars, tcpVars,
                   lifeVars>>

\* TslParser.parse(buffer); version records what its detectVersion call saw
Parse ==
    /\ pc \in {"built", "mutated", "truncated", "padded"}
    /\ version' = detectVersion(buffer)
    /\ parsed' = parse(buffer)
    /\ pc' = CASE pc = "built" -> "parsed"
               [] pc = "mutated" -> "parsedMutated"
               [] pc = "truncated" -> "parsedTruncated"
               [] pc = "padded" -> "parsedPadded"
    /\ UNCHANGED <<message, buffer, framerVars, tcpVars,
                   lifeVars>>

\* TslParser.parseV40(buffer) called directly on a V4.0 buffer
ParseV40 ==
    /\ pc \in {"built", "mutated"} /\ message.version = V4_0
    /\ parsed' = parseV40(buffer)
    /\ pc' = IF pc = "built" THEN "parsedV40" ELSE "parsedV40Mutated"
    /\ UNCHANGED <<message, buffer, version, framerVars, tcpVars,
                   lifeVars>>

\* TslParser.parseV50(buffer) called directly on a V5.0 buffer
ParseV50 ==
    /\ pc \in {"built", "truncated", "padded"} /\ message.version = V5_0
    /\ parsed' = parseV50(buffer)
    /\ pc' = CASE pc = "built" -> "parsedV50"
               [] pc = "truncated" -> "parsedV50Truncated"
               [] pc = "padded" -> "parsedV50Padded"
    /\ UNCHANGED <<message, buffer, version, framerVars, tcpVars,
                   lifeVars>>

NextCodec ==
    \/ BuildV31 \/ BuildV40 \/ BuildV50
    \/ Mutate \/ Truncate \/ Pad
    \/ Parse \/ ParseV40 \/ ParseV50

SpecCodec == InitCodec /\ [][NextCodec]_vars

-----------------------------------------------------------------------------
(* SpecRaw: an arbitrary received buffer is handed to detectVersion and    *)
(* to parse.                                                               *)

MaxRawLen == 23

\* every short length, and the first length whose PBC low byte is a header
RawLengths == (0..MaxRawLen) \cup {HeaderMin + 2}

HeadBytes == {0, 4, 6, 16, 20, HeaderMin - 1, HeaderMin, HeaderMin + 1,
              HeaderMax, HeaderMax + 1}

Raw(b0, b1, fill, n) ==
    [i \in 1..n |-> IF i = 1 THEN b0 ELSE IF i = 2 THEN b1 ELSE fill]

\* the buffer with byte 18 overwritten by the checksum of bytes 0..17
WithChecksum(b) ==
    IF Len(b) > 18 THEN [b EXCEPT ![19] = checksum18(b)] ELSE b

MaxEntries == 2

\* display entries as they sit in a V5.0 buffer: index, control, text length,
\* text.  In order: a one-byte text, an empty text, a two-byte text, a
\* control-data entry (bit 15 of the control word), and an entry that declares
\* nine text bytes and brings one
RawEntries ==
    {<<1, 0, 109, 0, 1, 0, 65>>,
     <<2, 0, 0, 0, 0, 0>>,
     <<3, 0, 192, 0, 2, 0, 58, 38>>,
     <<4, 0, 0, 128, 0, 0>>,
     <<5, 0, 0, 0, 9, 0, 66>>}

RECURSIVE Concat(_)
Concat(seqs) == IF seqs = <<>> THEN <<>> ELSE Head(seqs) \o Concat(Tail(seqs))

\* a buffer with a consistent PBC, the given flags, and `body` after byte 5
V50Raw(flags, body) ==
    <<(4 + Len(body)) % 256, (4 + Len(body)) \div 256, 0, flags, 1, 0>> \o body

\* V5.0 buffers whose entries may be control data, cut short or followed by
\* fewer than six bytes
WalkBuffers ==
    {V50Raw(flags, Concat(es) \o tail) :
        flags \in 0..3, es \in SeqsUpTo(RawEntries, MaxEntries),
        tail \in {<<>>, <<7, 0, 0>>}}

\* text bytes at and around the edges of the printable range, and with the
\* high bit set
TextBytes == {0, 31, SPACE, 65, 126, 127, 128, 160, 193, 254, 255}

\* V3.1 buffers (0x81 0x31) whose text is "x" sixteen times except for one
\* byte
TextBuffers ==
    {<<129, 49>> \o [k \in 1..16 |-> IF k = i + 1 THEN v ELSE 120] :
        i \in 0..15, v \in TextBytes}

RawBuffers ==
    LET plain == {Raw(b0, b1, fill, n) :
                     b0 \in HeadBytes, b1 \in {0, 1}, fill \in {0, SPACE},
                     n \in RawLengths}
    IN  plain \cup {WithChecksum(b) : b \in plain} \cup WalkBuffers
        \cup TextBuffers

InitRaw ==
    /\ pc = "received"
    /\ message = Null
    /\ buffer \in RawBuffers
    /\ version = NoVersion /\ parsed = Null
    /\ FramerIdle /\ TcpIdle /\ LifeIdle

Detect ==
    /\ pc = "received"
    /\ version' = detectVersion(buffer)
    /\ pc' = "detected"
    /\ UNCHANGED <<message, buffer, parsed, framerVars, tcpVars,
                   lifeVars>>

ParseRaw ==
    /\ pc = "detected"
    /\ parsed' = parse(buffer)
    /\ pc' = "parsed"
    /\ UNCHANGED <<message, buffer, version, framerVars, tcpVars,
                   lifeVars>>

NextRaw == Detect \/ ParseRaw

SpecRaw == InitRaw /\ [][NextRaw]_vars

-----------------------------------------------------------------------------
(* SpecFramer: a payload is wrapped for TCP and the frame is unwrapped.    *)

MaxPayload == 4

FrameBytes == {1, STX, DLE}

InitFramer ==
    /\ pc = "input"
    /\ payload \in SeqsUpTo(FrameBytes, MaxPayload)
    /\ wrapped = <<>> /\ unwrapped = NoBuffer
    /\ CodecIdle /\ TcpIdle /\ LifeIdle

Wrap ==
    /\ pc = "input"
    /\ wrapped' = wrapForTcp(payload)
    /\ pc' = "wrapped"
    /\ UNCHANGED <<message, buffer, version, parsed, payload, unwrapped, tcpVars,
                   lifeVars>>

Unwrap ==
    /\ pc = "wrapped"
    /\ unwrapped' = unwrapFromTcp(wrapped)
    /\ pc' = "unwrapped"
    /\ UNCHANGED <<message, buffer, version, parsed, payload, wrapped, tcpVars,
                   lifeVars>>

MaxPrefix == 2

\* unwrapFromTcp on a buffer that was not made by wrapForTcp
UnwrapRaw ==
    /\ pc = "input"
    /\ unwrapped' = unwrapFromTcp(payload)
    /\ pc' = "unwrappedRaw"
    /\ UNCHANGED <<message, buffer, version, parsed, payload, wrapped, tcpVars,
                   lifeVars>>

\* unwrapFromTcp on a frame with other bytes (kept in `buffer`) in front
UnwrapBehind ==
    /\ pc = "wrapped"
    /\ \E g \in SeqsUpTo(FrameBytes, MaxPrefix) :
          /\ buffer' = g
          /\ unwrapped' = unwrapFromTcp(g \o wrapped)
    /\ pc' = "unwrappedBehind"
    /\ UNCHANGED <<message, version, parsed, payload, wrapped, tcpVars,
                   lifeVars>>

NextFramer == Wrap \/ Unwrap \/ UnwrapRaw \/ UnwrapBehind

SpecFramer == InitFramer /\ [][NextFramer]_vars

-----------------------------------------------------------------------------
(* SpecTcp: the packets of some V3.1 messages are written back to back to  *)
(* a TCP connection and arrive at a TcpServer or a TcpClient as 'data'     *)
(* events, in order, cut into chunks at any place.                         *)

MaxPackets == 2
MaxChunks == 2

\* ParsedPacket; timestamp (the clock) and hexDump (a rendering of rawData)
\* are left out
ParsedPacket(rawData, parsedMessage, error, source) ==
    [rawData |-> rawData, parsed |-> parsedMessage, error |-> error,
     source |-> source]

\* TcpServer.parsePacket
parsePacket(b, source) ==
    ParsedPacket(b, parse(b),
                 IF parse(b) # Null THEN "undefined" ELSE "Failed to parse packet",
                 source)

\* the packet literal of TcpClient.handleData: no error field
clientPacket(b) == ParsedPacket(b, parse(b), "undefined", "Received")

Emit(packet, rest) ==
    [buffer |-> rest.buffer, packets |-> <<packet>> \o rest.packets]

\* serverStep that leaves fewer than 18 unrecognised bytes in the buffer
serverStep_KeepPartial(b, source) ==
    LET frame == unwrapFromTcp(b)
    IN  IF frame # NoBuffer
        THEN [buffer |-> <<>>, packets |-> <<parsePacket(frame, source)>>,
              continue |-> FALSE]
        ELSE IF Len(b) >= 18 /\ detectVersion(b) = V3_1
        THEN [buffer |-> slice(b, 18, Len(b)),
              packets |-> <<parsePacket(slice(b, 0, 18), source)>>,
              continue |-> TRUE]
        ELSE IF Len(b) >= 18 /\ detectVersion(b) = V4_0 /\ Len(b) >= 22
        THEN [buffer |-> slice(b, 22, Len(b)),
              packets |-> <<parsePacket(slice(b, 0, 22), source)>>,
              continue |-> TRUE]
        ELSE IF Len(b) < 18
        THEN [buffer |-> b, packets |-> <<>>, continue |-> FALSE]
        ELSE [buffer |-> <<>>, packets |-> <<parsePacket(b, source)>>,
              continue |-> FALSE]

\* serverStep that emits the unrecognised buffer without clearing it
serverStep_NoClear(b, source) ==
    LET frame == unwrapFromTcp(b)
    IN  IF frame # NoBuffer
        THEN [buffer |-> <<>>, packets |-> <<parsePacket(frame, source)>>,
              continue |-> FALSE]
        ELSE IF Len(b) >= 18 /\ detectVersion(b) = V3_1
        THEN [buffer |-> slice(b, 18, Len(b)),
              packets |-> <<parsePacket(slice(b, 0, 18), source)>>,
              continue |-> TRUE]
        ELSE IF Len(b) >= 18 /\ detectVersion(b) = V4_0 /\ Len(b) >= 22
        THEN [buffer |-> slice(b, 22, Len(b)),
              packets |-> <<parsePacket(slice(b, 0, 22), source)>>,
              continue |-> TRUE]
        ELSE [buffer |-> b, packets |-> <<parsePacket(b, source)>>,
              continue |-> FALSE]

\* serverStep whose raw flush emits the buffer twice
serverStep_FlushTwice(b, source) ==
    LET frame == unwrapFromTcp(b)
    IN  IF frame # NoBuffer
        THEN [buffer |-> <<>>, packets |-> <<parsePacket(frame, source)>>,
              continue |-> FALSE]
        ELSE IF Len(b) >= 18 /\ detectVersion(b) = V3_1
        THEN [buffer |-> slice(b, 18, Len(b)),
              packets |-> <<parsePacket(slice(b, 0, 18), source)>>,
              continue |-> TRUE]
        ELSE IF Len(b) >= 18 /\ detectVersion(b) = V4_0 /\ Len(b) >= 22
        THEN [buffer |-> slice(b, 22, Len(b)),
              packets |-> <<parsePacket(slice(b, 0, 22), source)>>,
              continue |-> TRUE]
        ELSE [buffer |-> <<>>,
              packets |-> <<parsePacket(b, source), parsePacket(b, source)>>,
              continue |-> FALSE]

\* one pass through the body of the while loop of TcpServer.handleData on a
\* non-empty receiveBuffer = b: the buffer it leaves, the packets it emits
\* and whether it ends in `continue` (otherwise `break`)
serverStep(b, source) ==
    LET frame == unwrapFromTcp(b)
    IN  IF frame # NoBuffer
        THEN [buffer |-> <<>>, packets |-> <<parsePacket(frame, source)>>,
              continue |-> FALSE]
        ELSE IF Len(b) >= 18 /\ detectVersion(b) = V3_1
        THEN [buffer |-> slice(b, 18, Len(b)),
              packets |-> <<parsePacket(slice(b, 0, 18), source)>>,
              continue |-> TRUE]
        ELSE IF Len(b) >= 18 /\ detectVersion(b) = V4_0 /\ Len(b) >= 22
        THEN [buffer |-> slice(b, 22, Len(b)),
              packets |-> <<parsePacket(slice(b, 0, 22), source)>>,
              continue |-> TRUE]
        ELSE [buffer |-> <<>>, packets |-> <<parsePacket(b, source)>>,
              continue |-> FALSE]

RECURSIVE serverLoop(_, _)
\* the while loop of TcpServer.handleData on receiveBuffer = b: the buffer
\* it leaves and the packets it emits
serverLoop(b, source) ==
    IF ~(Len(b) > 0) THEN [buffer |-> b, packets |-> <<>>]
    ELSE LET s == serverStep(b, source)
         IN  IF s.continue
             THEN Emit(s.packets[1], serverLoop(s.buffer, source))
             ELSE [buffer |-> s.buffer, packets |-> s.packets]

RECURSIVE serverTrace(_, _)
\* the passes of that loop in order: the buffer before and after each pass
\* and the packets the pass emits
serverTrace(b, source) ==
    IF ~(Len(b) > 0) THEN <<>>
    ELSE LET s == serverStep(b, source)
         IN  <<[before |-> b, after |-> s.buffer, packets |-> s.packets,
                continue |-> s.continue]>>
             \o (IF s.continue THEN serverTrace(s.buffer, source) ELSE <<>>)

\* clientStep that removes a packet only when a fixed-size version is detected
clientStep_DetectedOnly(b) ==
    LET frame == unwrapFromTcp(b)
        packetLen == IF detectVersion(b) = V4_0 THEN 22 ELSE 18
    IN  IF frame # NoBuffer
        THEN [buffer |-> <<>>, packets |-> <<clientPacket(frame)>>,
              continue |-> FALSE]
        ELSE IF Len(b) >= 18 /\ Len(b) >= packetLen
                /\ detectVersion(b) \in {V3_1, V4_0}
        THEN [buffer |-> slice(b, packetLen, Len(b)),
              packets |-> <<clientPacket(slice(b, 0, packetLen))>>,
              continue |-> TRUE]
        ELSE [buffer |-> b, packets |-> <<>>, continue |-> FALSE]

\* clientStep that clears the whole buffer after a fixed-size packet
clientStep_ClearAfterPacket(b) ==
    LET frame == unwrapFromTcp(b)
        packetLen == IF detectVersion(b) = V4_0 THEN 22 ELSE 18
    IN  IF frame # NoBuffer
        THEN [buffer |-> <<>>, packets |-> <<clientPacket(frame)>>,
              continue |-> FALSE]
        ELSE IF Len(b) >= 18 /\ Len(b) >= packetLen
        THEN [buffer |-> <<>>,
              packets |-> <<clientPacket(slice(b, 0, packetLen))>>,
              continue |-> TRUE]
        ELSE [buffer |-> b, packets |-> <<>>, continue |-> FALSE]

\* one pass through the body of the while loop of TcpClient.handleData
clientStep(b) ==
    LET frame == unwrapFromTcp(b)
        packetLen == IF detectVersion(b) = V4_0 THEN 22 ELSE 18
    IN  IF frame # NoBuffer
        THEN [buffer |-> <<>>, packets |-> <<clientPacket(frame)>>,
              continue |-> FALSE]
        ELSE IF Len(b) >= 18 /\ Len(b) >= packetLen
        THEN [buffer |-> slice(b, packetLen, Len(b)),
              packets |-> <<clientPacket(slice(b, 0, packetLen))>>,
              continue |-> TRUE]
        ELSE [buffer |-> b, packets |-> <<>>, continue |-> FALSE]

RECURSIVE clientLoop(_)
\* the while loop of TcpClient.handleData on receiveBuffer = b
clientLoop(b) ==
    IF ~(Len(b) > 0) THEN [buffer |-> b, packets |-> <<>>]
    ELSE LET s == clientStep(b)
         IN  IF s.continue
             THEN Emit(s.packets[1], clientLoop(s.buffer))
             ELSE [buffer |-> s.buffer, packets |-> s.packets]

RECURSIVE clientTrace(_)
\* the passes of that loop in order
clientTrace(b) ==
    IF ~(Len(b) > 0) THEN <<>>
    ELSE LET s == clientStep(b)
         IN  <<[before |-> b, after |-> s.buffer, packets |-> s.packets,
                continue |-> s.continue]>>
             \o (IF s.continue THEN clientTrace(s.buffer) ELSE <<>>)

\* the remote address label TcpServer gives the connection
ClientAddr == "peer:1"

\* address 1, tally 1, full brightness (0x81 0x31) and address 126, tally 2,
\* brightness off (0xFE 0x02); both with the text "CAM 1"
TcpMessages ==
    {[version |-> V3_1, address |-> 1, tally1 |-> TRUE, tally2 |-> FALSE,
      tally3 |-> FALSE, tally4 |-> FALSE, brightness |-> 3,
      displayText |-> CAM1],
     [version |-> V3_1, address |-> 126, tally1 |-> FALSE, tally2 |-> TRUE,
      tally3 |-> FALSE, tally4 |-> FALSE, brightness |-> 0,
      displayText |-> CAM1]}

RECURSIVE Stream(_)
\* the packets of the messages, concatenated
Stream(ms) == IF ms = <<>> THEN <<>> ELSE buildV31(Head(ms)) \o Stream(Tail(ms))

InitTcp ==
    /\ pc = "open"
    /\ endpoint \in {"TcpServer", "TcpClient"}
    /\ sent \in SeqsUpTo(TcpMessages, MaxPackets) \ {<<>>}
    /\ pending = Stream(sent)
    /\ chunks = 0
    /\ receiveBuffer = <<>>
    /\ emitted = <<>>
    /\ origin = <<>> /\ last = NoCall
    /\ CodecIdle /\ FramerIdle /\ LifeIdle

\* socket 'data' event of a TcpServer connection: handleData(data, clientAddr)
ServerData ==
    /\ endpoint = "TcpServer" /\ chunks < MaxChunks
    /\ \E k \in 1..Len(pending) :
          LET data == slice(pending, 0, k)
              r == serverLoop(receiveBuffer \o data, ClientAddr)
          IN  /\ receiveBuffer' = r.buffer
              /\ emitted' = emitted \o r.packets
              /\ pending' = slice(pending, k, Len(pending))
    /\ chunks' = chunks + 1
    /\ UNCHANGED <<pc, endpoint, sent, message, buffer, version, parsed,
                   framerVars, origin, last,
                   lifeVars>>

\* socket 'data' event of the TcpClient: handleData(data)
ClientData ==
    /\ endpoint = "TcpClient" /\ chunks < MaxChunks
    /\ \E k \in 1..Len(pending) :
          LET data == slice(pending, 0, k)
              r == clientLoop(receiveBuffer \o data)
          IN  /\ receiveBuffer' = r.buffer
              /\ emitted' = emitted \o r.packets
              /\ pending' = slice(pending, k, Len(pending))
    /\ chunks' = chunks + 1
    /\ UNCHANGED <<pc, endpoint, sent, message, buffer, version, parsed,
                   framerVars, origin, last,
                   lifeVars>>

NextTcp == ServerData \/ ClientData

SpecTcp == InitTcp /\ [][NextTcp]_vars

-----------------------------------------------------------------------------
(* SpecStream: chunks of any content arrive at a UdpServer, at a TcpServer *)
(* over two connections in any interleaving, or at a TcpClient.            *)

MaxEvents == 3

\* the connections open to the receiver, and the `address:port` label of each
Conns == {1, 2}
Addr(c) == IF c = 1 THEN "peer:1" ELSE "peer:2"

\* UdpServer.parsePacket
udpParsePacket(b, source) ==
    ParsedPacket(b, parse(b),
                 IF parse(b) # Null THEN "undefined" ELSE "Failed to parse packet",
                 source)

\* a V3.1 packet (0x81 0x31 "CAM 1"), a V4.0 packet, an unframed V5.0 packet
\* of 18 bytes, a framed V5.0 packet of no displays, and 18 bytes of nothing
StreamV31 ==
    buildV31([version |-> V3_1, address |-> 1, tally1 |-> TRUE,
              tally2 |-> FALSE, tally3 |-> FALSE, tally4 |-> FALSE,
              brightness |-> 3, displayText |-> CAM1])

StreamV40 ==
    buildV40([version |-> V4_0, address |-> 1, tally1 |-> TRUE,
              tally2 |-> FALSE, tally3 |-> FALSE, tally4 |-> FALSE,
              brightness |-> 3, displayText |-> CAM1,
              leftDisplay |-> Triple(1, 2, 3), rightDisplay |-> Triple(3, 0, 2)])

StreamV50 == <<16, 0, 0, 0, 0, 0, 1, 0, 109, 0, 6, 0, 67, 65, 77, 32, 49, 32>>

Frame == <<DLE, STX, 4, 0, 0, 0, 0, 0>>

Zero18 == [i \in 1..18 |-> 0]

\* what one 'data' event or one datagram may carry: whole packets, the two
\* parts of a split packet, a packet short of its last byte, a frame, a frame
\* behind a packet, two frames, a frame split inside its delimiter, garbage
ChunkPool ==
    {StreamV31, slice(StreamV31, 0, 5), slice(StreamV31, 5, 18),
     StreamV40, slice(StreamV40, 0, 21),
     StreamV50, Zero18,
     Frame, StreamV31 \o Frame, Frame \o Frame, <<DLE>>, Tail(Frame)}

Tags(c, n) == [i \in 1..n |-> c]

InitStream ==
    /\ pc = "open"
    /\ endpoint \in {"UdpServer", "TcpServer", "TcpClient"}
    /\ sent = <<>> /\ pending = <<>>
    /\ chunks = 0
    /\ receiveBuffer = <<>>
    /\ emitted = <<>>
    /\ origin = <<>> /\ last = NoCall
    /\ CodecIdle /\ FramerIdle /\ LifeIdle

\* socket 'message' event of the UdpServer
UdpMessage ==
    /\ endpoint = "UdpServer" /\ chunks < MaxEvents
    /\ \E msg \in ChunkPool :
          LET packet == udpParsePacket(msg, Addr(1))
          IN  /\ emitted' = Append(emitted, packet)
              /\ last' = [conn |-> 1, data |-> msg, input |-> msg,
                          from |-> Tags(1, Len(msg)),
                          passes |-> <<>>, packets |-> <<packet>>]
              /\ sent' = sent \o msg
    /\ chunks' = chunks + 1
    /\ UNCHANGED <<pc, endpoint, pending, receiveBuffer, origin, message,
                   buffer, version, parsed, framerVars,
                   lifeVars>>

\* socket 'data' event of connection c of the TcpServer:
\* handleData(data, clientAddr) on the receiveBuffer field of the server
ServerChunk ==
    /\ endpoint = "TcpServer" /\ chunks < MaxEvents
    /\ \E c \in Conns, data \in ChunkPool :
          LET b == receiveBuffer \o data
              from == origin \o Tags(c, Len(data))
              r == serverLoop(b, Addr(c))
          IN  /\ receiveBuffer' = r.buffer
              /\ origin' = slice(from, Len(from) - Len(r.buffer), Len(from))
              /\ emitted' = emitted \o r.packets
              /\ last' = [conn |-> c, data |-> data, input |-> b, from |-> from,
                          passes |-> serverTrace(b, Addr(c)),
                          packets |-> r.packets]
              /\ sent' = sent \o data
    /\ chunks' = chunks + 1
    /\ UNCHANGED <<pc, endpoint, pending, message, buffer, version,
                   parsed, framerVars,
                   lifeVars>>

\* socket 'data' event of the TcpClient: handleData(data)
ClientChunk ==
    /\ endpoint = "TcpClient" /\ chunks < MaxEvents
    /\ \E data \in ChunkPool :
          LET b == receiveBuffer \o data
              from == origin \o Tags(1, Len(data))
              r == clientLoop(b)
          IN  /\ receiveBuffer' = r.buffer
              /\ origin' = slice(from, Len(from) - Len(r.buffer), Len(from))
              /\ emitted' = emitted \o r.packets
              /\ last' = [conn |-> 1, data |-> data, input |-> b, from |-> from,
                          passes |-> clientTrace(b), packets |-> r.packets]
              /\ sent' = sent \o data
    /\ chunks' = chunks + 1
    /\ UNCHANGED <<pc, endpoint, pending, message, buffer, version,
                   parsed, framerVars,
                   lifeVars>>

NextStream == UdpMessage \/ ServerChunk \/ ClientChunk

SpecStream == InitStream /\ [][NextStream]_vars

-----------------------------------------------------------------------------
(* SpecLife: start() and stop() are called on a UdpServer or a TcpServer   *)
(* in any order while the bind / listen of the sockets they created        *)
(* completes, or fails, at any later moment.                               *)

MaxSockets == 3
MaxCalls == 5

SocketIds == 1..MaxSockets

InitLife ==
    /\ pc = "constructed"
    /\ endpoint \in {"UdpServer", "TcpServer"}
    /\ sent = <<>> /\ pending = <<>> /\ chunks = 0
    /\ receiveBuffer = <<>> /\ emitted = <<>>
    /\ origin = <<>> /\ last = NoCall
    /\ CodecIdle /\ FramerIdle /\ LifeIdle

\* start(): returns if `running`, else creates a socket (dgram.createSocket /
\* net.createServer), stores it in the field and calls bind / listen
Start ==
    /\ calls < MaxCalls
    /\ calls' = calls + 1
    /\ IF running THEN UNCHANGED <<running, socket, opened, binding>>
       ELSE /\ \E s \in SocketIds : s \notin opened
            /\ LET s == CHOOSE id \in SocketIds : id \notin opened
               IN  /\ socket' = s
                   /\ opened' = opened \cup {s}
                   /\ binding' = binding \cup {s}
            /\ UNCHANGED running
    /\ UNCHANGED <<codecVars, framerVars, tcpVars>>

\* the 'listening' event of socket s / the callback of server.listen.  The
\* UdpServer handler first calls this.socket!.address(): that throws when the
\* field is null, and may throw when the field holds another socket that is
\* not bound yet; the TcpServer callback only sets `running`
Listening ==
    /\ \E s \in binding :
          /\ binding' = binding \ {s}
          /\ IF endpoint = "TcpServer" \/ socket = s THEN running' = TRUE
             ELSE IF socket = 0 THEN UNCHANGED running
             ELSE running' \in {running, TRUE}
    /\ UNCHANGED <<socket, opened, calls, codecVars, framerVars, tcpVars>>

\* the 'error' event of socket s: its bind / listen failed (the port is
\* taken by an earlier socket of the instance); the handler only re-emits
BindError ==
    /\ \E s \in binding :
          /\ opened \ {s} # {}
          /\ binding' = binding \ {s}
    /\ UNCHANGED <<running, socket, opened, calls, codecVars, framerVars,
                   tcpVars>>

\* stop(): closes the socket held in the field, if any
Stop ==
    /\ calls < MaxCalls
    /\ calls' = calls + 1
    /\ IF socket # 0
       THEN /\ opened' = opened \ {socket}
            /\ binding' = binding \ {socket}
            /\ socket' = 0
            /\ running' = FALSE
       ELSE UNCHANGED <<running, socket, opened, binding>>
    /\ UNCHANGED <<codecVars, framerVars, tcpVars>>

NextLife == Start \/ Listening \/ BindError \/ Stop

SpecLife == InitLife /\ [][NextLife]_vars

-----------------------------------------------------------------------------
(* Claims about the codec, checked under SpecCodec.                        *)

\* a text truncated or padded with spaces to exactly 16 characters
Text16(text) == [i \in 1..16 |-> IF i <= Len(text) THEN text[i] ELSE SPACE]

\* C3: for every valid V3.1 and V4.0 message, parse(build(x)) is a message of
\* the same version with every field equal to x's, displayText being x's
\* text truncated or space-padded to 16 characters.
C3_RoundTripFixed ==
    (pc = "parsed" /\ message.version \in {V3_1, V4_0})
        => parsed = [message EXCEPT !.displayText = Text16(message.displayText)]

C3_Witness ==
    /\ pc = "parsed" /\ message.version = V4_0
    /\ Len(message.displayText) > 16
    /\ message.leftDisplay # message.rightDisplay
    /\ parsed.version = V4_0

\* C4 as stated: parse(buildV50(x)) equals x, for any flags and any
\* packetByteCount field.
C4_RoundTripV50_AsStated ==
    (pc = "parsed" /\ message.version = V5_0) => parsed = message

\* C4, amended: parse(buildV50(x)) has x's minor version, flags and screen;
\* its packetByteCount is the encoded length minus 2; its displays are x's, in
\* order, when screenControl is clear and the empty list when it is set.
C4_RoundTripV50 ==
    (pc = "parsed" /\ message.version = V5_0)
        => parsed = [message EXCEPT
                        !.packetByteCount = Len(buffer) - 2,
                        !.displays = IF message.flags.screenControl
                                     THEN <<>> ELSE @]

C4_Witness ==
    /\ pc = "parsed" /\ message.version = V5_0
    /\ Len(message.displays) = 2
    /\ message.displays[1] # message.displays[2]
    /\ message.flags.unicode /\ ~message.flags.screenControl
    /\ parsed.displays = message.displays

\* C5: a V4.0 buffer with one of bytes 0..17 replaced so that byte 18 is no
\* longer the checksum of bytes 0..17 is never decoded to a message.
C5_MutatedNeverDecodes ==
    (pc = "parsedMutated" /\ At(buffer, 18) # checksum18(buffer))
        => parsed = Null

\* C6: a V5.0 buffer with its last byte removed, or with one byte appended,
\* is never decoded to a message.
C6_ResizedNeverDecodes ==
    (pc \in {"parsedTruncated", "parsedPadded"}) => parsed = Null

ExampleV31 ==
    [version |-> V3_1, address |-> 1, tally1 |-> TRUE, tally2 |-> FALSE,
     tally3 |-> FALSE, tally4 |-> FALSE, brightness |-> 3,
     displayText |-> CAM1]

\* C10: buildV31 returns 18 bytes: address + 0x80, the control byte packing
\* the four tally bits and the brightness, and the text truncated or padded
\* with spaces to 16 bytes; the example message gives 0x81, 0x31, "CAM 1" and
\* 11 spaces.
C10_BuildV31Layout ==
    (pc = "built" /\ message.version = V3_1)
        => /\ Len(buffer) = 18
           /\ At(buffer, 0) = message.address + 128
           /\ At(buffer, 1) = Bit(message.tally1, 1) + Bit(message.tally2, 2)
                              + Bit(message.tally3, 4) + Bit(message.tally4, 8)
                              + message.brightness * 16
           /\ \A i \in 0..15 :
                 At(buffer, 2 + i) = Text16(message.displayText)[i + 1]
           /\ (message = ExampleV31
                 => buffer = <<129, 49, 67, 65, 77, 32, 49, 32, 32, 32, 32,
                               32, 32, 32, 32, 32, 32, 32>>)

C10_Witness == pc = "built" /\ message = ExampleV31 /\ Len(buffer) = 18

\* the byte a tally triple packs into: leftTally<<4 | textTally<<2 | rightTally
TripleByte(t) == t.leftTally * 16 + t.textTally * 4 + t.rightTally

\* C13: buildV40 returns 22 bytes; byte 18 is (~sum + 1) & 0x7F of bytes
\* 0..17, so the sum of bytes 0..17 plus byte 18 is 0 mod 128; byte 19 is 0x02;
\* bytes 20 and 21 pack the left-display and right-display triples; and
\* parseV40 returns a message only for a buffer in which that equation holds.
C13_BuildV40Checksum ==
    /\ (pc \in {"built", "parsedV40"} /\ message.version = V4_0)
          => /\ Len(buffer) = 22
             /\ At(buffer, 18) = (128 - (SumBytes(buffer, 18) % 128)) % 128
             /\ (SumBytes(buffer, 18) + At(buffer, 18)) % 128 = 0
             /\ At(buffer, 19) = 2
             /\ At(buffer, 20) = TripleByte(message.leftDisplay)
             /\ At(buffer, 21) = TripleByte(message.rightDisplay)
    /\ (pc \in {"parsedV40", "parsedV40Mutated"} /\ parsed # Null)
          => (SumBytes(buffer, 18) + At(buffer, 18)) % 128 = 0

C13_Witness ==
    /\ pc = "parsedV40" /\ parsed # Null
    /\ At(buffer, 18) > 0
    /\ At(buffer, 20) # At(buffer, 21)

RECURSIVE EncodedSize(_, _)
\* sum over the displays of 6 + the byte length of the encoded text: two
\* bytes per code unit in UTF-16LE, one in ASCII
EncodedSize(displays, unicode) ==
    IF displays = <<>> THEN 0
    ELSE 6 + (IF unicode THEN 2 * Len(Head(displays).text)
              ELSE Len(Head(displays).text))
         + EncodedSize(Tail(displays), unicode)

\* C14: buildV50 returns 6 + sum of (6 + encoded text length) bytes whose
\* first 16 bits, little-endian, are that length minus 2, whatever the
\* message's packetByteCount says; and parseV50 returns a message only for a
\* buffer whose first 16 bits equal its length minus 2.
C14_BuildV50Pbc ==
    /\ (pc \in {"built", "parsedV50"} /\ message.version = V5_0)
          => /\ Len(buffer)
                   = 6 + EncodedSize(message.displays, message.flags.unicode)
             /\ At(buffer, 0) + 256 * At(buffer, 1) = Len(buffer) - 2
    /\ (pc \in {"parsedV50", "parsedV50Truncated", "parsedV50Padded"}
           /\ parsed # Null)
          => At(buffer, 0) + 256 * At(buffer, 1) = Len(buffer) - 2

C14_Witness ==
    /\ pc = "parsedV50" /\ parsed # Null
    /\ message.packetByteCount # Len(buffer) - 2
    /\ message.flags.unicode /\ Len(message.displays) >= 2

\* C27: detectVersion on the builder's own output returns the version of the
\* message built: a buildV31 or buildV40 buffer is never taken for V5.0, a
\* buildV40 buffer never for V3.1, and a buildV50 buffer always for V5.0.
C27_DetectBuilt ==
    (pc = "parsed") => version = message.version

\* a V5.0 buffer whose first byte, the low byte of the PBC, is a V3.1 header
C27_Witness ==
    /\ pc = "parsed" /\ message.version = V5_0
    /\ At(buffer, 0) >= HeaderMin /\ At(buffer, 0) <= HeaderMax
    /\ Len(buffer) > 18
    /\ version = V5_0

-----------------------------------------------------------------------------
(* Claims about detectVersion, checked under SpecRaw.                      *)

PbcMatches(b) == Len(b) >= 6 /\ readUInt16LE(b, 0) = Len(b) - 2

HeaderInRange(b) == At(b, 0) >= HeaderMin /\ At(b, 0) <= HeaderMax

\* C7 as stated: detectVersion on 06 00 00 00 00 00 returns V5.0.
C7_DetectExample_AsStated ==
    (pc = "detected" /\ buffer = <<6, 0, 0, 0, 0, 0>>) => version = V5_0

\* C7, amended: detectVersion on 06 00 00 00 00 00 (PBC 6, length - 2 = 4)
\* returns no version; on 04 00 00 00 00 00 (PBC 4 = length - 2) it returns
\* V5.0.
C7_DetectExample ==
    /\ (pc = "detected" /\ buffer = <<6, 0, 0, 0, 0, 0>>) => version = NoVersion
    /\ (pc = "detected" /\ buffer = <<4, 0, 0, 0, 0, 0>>) => version = V5_0

C7_Witness ==
    pc = "detected" /\ buffer = <<6, 0, 0, 0, 0, 0>> /\ version = NoVersion

\* C8: a buffer of length >= 6 whose first 16 bits, little-endian, equal
\* length - 2 is detected as V5.0, also when its first byte is a V3.1/V4.0
\* header and byte 18 is the V4.0 checksum of bytes 0..17.
C8_PbcFirst ==
    (pc = "detected" /\ PbcMatches(buffer)) => version = V5_0

C8_Witness ==
    /\ pc = "detected" /\ PbcMatches(buffer) /\ HeaderInRange(buffer)
    /\ At(buffer, 18) = checksum18(buffer)
    /\ version = V5_0

\* what the header-range step of the detection gives
HeaderStep(b) ==
    IF HeaderInRange(b)
    THEN IF Len(b) > 18 /\ At(b, 18) = checksum18(b) THEN V4_0 ELSE V3_1
    ELSE NoVersion

\* C9 as stated: for every buffer of length >= 1 the PBC check does not take,
\* the header-range step decides.
C9_HeaderStep_AsStated ==
    (pc = "detected" /\ Len(buffer) >= 1 /\ ~PbcMatches(buffer))
        => version = HeaderStep(buffer)

\* C9, amended: the header-range step decides for every buffer of length >= 2
\* the PBC check does not take; a buffer of length 0 or 1 has no version,
\* whatever its first byte.
C9_HeaderStep ==
    /\ (pc = "detected" /\ Len(buffer) >= 2 /\ ~PbcMatches(buffer))
          => version = HeaderStep(buffer)
    /\ (pc = "detected" /\ Len(buffer) < 2) => version = NoVersion

C9_Witness ==
    /\ pc = "detected" /\ Len(buffer) = 1 /\ HeaderInRange(buffer)
    /\ version = NoVersion

\* C11: for every byte sequence parse returns a message or the 'no message'
\* value; no statement of detectVersion, parseV31, parseV40 or the display
\* walk reads at an index at or past the end of the buffer, and the walk's
\* offset strictly increases from one iteration to the next.
C11_ParseTotal ==
    (pc = "parsed")
        => /\ parsed = Null \/ parsed.version \in {V3_1, V4_0, V5_0}
           /\ \A i \in parseReads(buffer) : 0 <= i /\ i < Len(buffer)
           /\ LET offs == walkOffsets(buffer, 6)
              IN  \A k \in 1..(Len(offs) - 1) : offs[k] < offs[k + 1]

C11_Witness ==
    /\ pc = "parsed" /\ version = V5_0
    /\ Len(walkOffsets(buffer, 6)) >= 2
    /\ Len(buffer) - 1 \in parseReads(buffer)

\* a display entry is wholly present at offset o: six header bytes, bit 15 of
\* the control word clear, and the declared text inside the buffer
EntryWhole(b, o) ==
    /\ o + 6 <= Len(b)
    /\ readUInt16LE(b, o + 2) < 32768
    /\ o + 6 + readUInt16LE(b, o + 4) <= Len(b)

EntryEnd(b, o) == o + 6 + readUInt16LE(b, o + 4)

RECURSIVE PrefixOffsets(_, _)
\* the offsets of the longest run of wholly present display entries from o
PrefixOffsets(b, o) ==
    IF EntryWhole(b, o) THEN <<o>> \o PrefixOffsets(b, EntryEnd(b, o)) ELSE <<>>

\* the display an entry at offset o stands for
EntryDisplay(b, o, unicode) ==
    LET control == readUInt16LE(b, o + 2)
        raw == [i \in 1..readUInt16LE(b, o + 4) |-> At(b, o + 5 + i)]
    IN  [index |-> readUInt16LE(b, o),
         rightTally |-> control % 4,
         textTally |-> (control \div 4) % 4,
         leftTally |-> (control \div 16) % 4,
         brightness |-> (control \div 64) % 4,
         text |-> IF unicode THEN utf16leDecode(raw) ELSE asciiDecode(raw)]

\* C20: a buffer with a consistent PBC always parses; with screenControl
\* clear its displays are exactly the longest prefix of wholly present
\* display-data entries walked from offset 6, and with screenControl set the
\* display list is empty.
C20_DisplayWalk ==
    (pc = "parsed" /\ PbcMatches(buffer))
        => /\ parsed # Null /\ parsed.version = V5_0
           /\ LET unicode == At(buffer, 3) % 2 = 1
                  screenControl == (At(buffer, 3) \div 2) % 2 = 1
                  offs == PrefixOffsets(buffer, 6)
              IN  IF screenControl THEN parsed.displays = <<>>
                  ELSE /\ Len(parsed.displays) = Len(offs)
                       /\ \A k \in 1..Len(offs) :
                             parsed.displays[k]
                                = EntryDisplay(buffer, offs[k], unicode)

\* one display decoded, then a control-data entry with a further entry behind
C20_Witness ==
    /\ pc = "parsed" /\ PbcMatches(buffer)
    /\ (At(buffer, 3) \div 2) % 2 = 0
    /\ Len(parsed.displays) = 1
    /\ LET o == EntryEnd(buffer, 6)
       IN  /\ o + 6 < Len(buffer)
           /\ readUInt16LE(buffer, o + 2) >= 32768

Printable(c) == c >= 32 /\ c <= 126

\* C21: for every buffer parseV31 accepts, displayText has exactly 16
\* characters, each printable (0x20..0x7E); character i is a space whenever
\* byte 2+i lies outside 0x20..0x7E, and a printable byte decodes to itself.
C21_TextSanitised ==
    (pc = "parsed" /\ parsed # Null /\ parsed.version \in {V3_1, V4_0})
        => /\ Len(parsed.displayText) = 16
           /\ \A i \in 0..15 :
                 /\ Printable(parsed.displayText[i + 1])
                 /\ ~Printable(At(buffer, 2 + i))
                       => parsed.displayText[i + 1] = SPACE
                 /\ Printable(At(buffer, 2 + i))
                       => parsed.displayText[i + 1] = At(buffer, 2 + i)

-----------------------------------------------------------------------------
(* Claims about the framer, checked under SpecFramer.                      *)

\* C2: unwrapFromTcp(wrapForTcp(x)) = x for every byte sequence x; the frame
\* FE 02 01 FE FE 02 unwraps to 01 FE 02.
C2_UnwrapWrap ==
    (pc = "unwrapped")
        => /\ unwrapped = payload
           /\ (wrapped = <<254, 2, 1, 254, 254, 2>> => unwrapped = <<1, 254, 2>>)

C2_Witness ==
    /\ pc = "unwrapped"
    /\ wrapped = <<254, 2, 1, 254, 254, 2>>
    /\ unwrapped = <<1, 254, 2>>

-----------------------------------------------------------------------------
(* Claims about the TCP receive path, checked under SpecTcp.               *)

\* C1: once the packets of N valid V3.1 messages have all been delivered, in
\* any chunks, exactly N packets were emitted and the i-th carries the decoded
\* content of the i-th message.
C1_Reassembly ==
    (pc = "open" /\ pending = <<>>)
        => /\ Len(emitted) = Len(sent)
           /\ \A i \in 1..Len(sent) :
                 emitted[i].parsed =
                    [sent[i] EXCEPT !.displayText = Text16(sent[i].displayText)]

-----------------------------------------------------------------------------
(* Claims about the receivers under chunks of any content, checked under   *)
(* SpecStream.                                                             *)

Reassemblers == {"TcpServer", "TcpClient"}

\* the buffer holds an adjacent DLE,STX pair
PairAt(b, i) == At(b, i) = DLE /\ At(b, i + 1) = STX

HasPair(b) == \E i \in 0..(Len(b) - 2) : PairAt(b, i)

FirstPair(b) ==
    CHOOSE i \in 0..(Len(b) - 2) :
        PairAt(b, i) /\ \A j \in 0..(i - 1) : ~PairAt(b, j)

\* C12: every packet emitted by UdpServer, TcpServer.handleData and
\* TcpClient.handleData carries a failure description exactly when it carries
\* no decoded message.
C12_ErrorIffNoMessage ==
    \A k \in 1..Len(emitted) :
        (emitted[k].parsed = Null) <=> (emitted[k].error # "undefined")

\* C15: with two connections to one TcpServer delivering chunks in any
\* interleaving, every packet a call emits carries the label of the
\* connection that made the call, and every byte that call worked on was
\* received on that connection.
C15_NoCrossConnection ==
    (endpoint = "TcpServer" /\ last.conn # 0)
        => /\ \A k \in 1..Len(last.packets) :
                 last.packets[k].source = Addr(last.conn)
           /\ last.packets # <<>>
                 => \A i \in 1..Len(last.from) : last.from[i] = last.conn
           /\ \A i \in 1..Len(origin) : origin[i] = last.conn

\* connection 1 delivered the first 5 bytes of a packet, connection 2 the
\* other 13
C15_Witness ==
    /\ endpoint = "TcpServer" /\ last.conn = 2
    /\ Len(emitted) >= 2
    /\ emitted[1].source = Addr(1)
    /\ emitted[1].rawData = slice(StreamV31, 0, 5)
    /\ last.input = slice(StreamV31, 5, 18)
    /\ emitted[Len(emitted)].source = Addr(2)

\* C16: when the buffer a handleData call works on holds a DLE,STX pair
\* anywhere, the call makes one pass and emits exactly one packet, decoded
\* from the de-stuffed bytes behind the first pair; the buffer is left empty,
\* and neither the bytes in front of the pair nor a second frame get a packet.
C16_FrameFirst ==
    (endpoint \in Reassemblers /\ last.conn # 0 /\ HasPair(last.input))
        => LET body == destuff(last.input, FirstPair(last.input) + 2)
           IN  /\ Len(last.passes) = 1
               /\ Len(last.packets) = 1
               /\ last.packets[1].rawData = body
               /\ last.packets[1].parsed = parse(body)
               /\ receiveBuffer = <<>>

\* a complete V3.1 packet in front of the frame
C16_Witness ==
    /\ endpoint \in Reassemblers /\ last.conn # 0 /\ HasPair(last.input)
    /\ FirstPair(last.input) >= 18
    /\ parse(slice(last.input, 0, 18)) # Null
    /\ Len(last.packets) = 1

\* pass p removed the first n bytes as one packet and went on with the rest
RemovedPrefix(p, n) ==
    /\ p.continue /\ Len(p.before) >= n
    /\ p.after = slice(p.before, n, Len(p.before))
    /\ Len(p.packets) = 1
    /\ p.packets[1].rawData = slice(p.before, 0, n)

\* C17: in a pass where unwrap yields nothing and at least 18 bytes are
\* buffered, a prefix is removed as a packet only when detectVersion reports
\* V3.1 (18 bytes) or V4.0 (22 bytes); with V5.0 or no version no 18-byte or
\* 22-byte prefix is removed.
C17_FixedOnlyWhenDetected ==
    (endpoint \in Reassemblers /\ last.conn # 0)
        => \A k \in 1..Len(last.passes) :
              LET p == last.passes[k]
              IN  (~HasPair(p.before) /\ Len(p.before) >= 18)
                     => /\ detectVersion(p.before) = V3_1 => RemovedPrefix(p, 18)
                        /\ (detectVersion(p.before) = V4_0 /\ Len(p.before) >= 22)
                              => RemovedPrefix(p, 22)
                        /\ RemovedPrefix(p, 18) => detectVersion(p.before) = V3_1
                        /\ RemovedPrefix(p, 22) => detectVersion(p.before) = V4_0

\* C18: in a pass on a non-empty buffer where neither the framed step nor
\* the fixed-size step took a packet, the whole buffer is emitted as one
\* packet without a decoded message and the buffer is cleared.
C18_RawFlush ==
    (endpoint \in Reassemblers /\ last.conn # 0)
        => \A k \in 1..Len(last.passes) :
              LET p == last.passes[k]
              IN  (Len(p.before) > 0 /\ ~HasPair(p.before) /\ ~p.continue)
                     => /\ Len(p.packets) = 1
                        /\ p.packets[1].rawData = p.before
                        /\ p.packets[1].parsed = Null
                        /\ p.after = <<>>

\* C19: once a chunk has been processed the receive buffer of a TcpServer or
\* TcpClient holds at most 21 bytes.
C19_BufferBounded ==
    (endpoint \in Reassemblers) => Len(receiveBuffer) <= 21

C19_Witness ==
    /\ endpoint = "TcpClient" /\ last.conn # 0
    /\ Len(receiveBuffer) = 21
    /\ Len(emitted) >= 1

-----------------------------------------------------------------------------
(* Further claims about the framer, checked under SpecFramer.              *)

RECURSIVE CountDle(_)
CountDle(b) ==
    IF b = <<>> THEN 0 ELSE (IF Head(b) = DLE THEN 1 ELSE 0) + CountDle(Tail(b))

\* C22 as stated: wrapForTcp(x) has length 2 + |x| + the number of 0xFE bytes
\* in x, begins with 0xFE,0x02, and 0xFE,0x02 does not occur again in the
\* stuffed payload behind those two bytes.
C22_WrapLayout_AsStated ==
    (pc = "wrapped")
        => /\ Len(wrapped) = 2 + Len(payload) + CountDle(payload)
           /\ At(wrapped, 0) = DLE /\ At(wrapped, 1) = STX
           /\ ~HasPair(slice(wrapped, 2, Len(wrapped)))

\* C22: wrapForTcp(x) has length 2 + |x| + the number of 0xFE bytes in x and
\* begins with 0xFE,0x02; behind those two bytes 0xFE,0x02 occurs exactly
\* when x itself holds 0xFE,0x02, and then always with a second 0xFE in
\* front of it.
C22_WrapLayout ==
    (pc = "wrapped")
        => /\ Len(wrapped) = 2 + Len(payload) + CountDle(payload)
           /\ At(wrapped, 0) = DLE /\ At(wrapped, 1) = STX
           /\ HasPair(slice(wrapped, 2, Len(wrapped))) <=> HasPair(payload)
           /\ \A i \in 2..(Len(wrapped) - 2) :
                 PairAt(wrapped, i) => i >= 3 /\ At(wrapped, i - 1) = DLE

C22_Witness ==
    /\ pc = "wrapped"
    /\ HasPair(payload)
    /\ HasPair(slice(wrapped, 2, Len(wrapped)))
    /\ CountDle(payload) >= 2

\* C23: unwrapFromTcp reports 'not found' exactly when the buffer holds no
\* adjacent 0xFE,0x02 pair, buffers of length 0 and 1 included; otherwise it
\* returns the de-stuffed bytes behind the first pair, so a frame behind a
\* prefix that holds no pair unwraps to its payload.
C23_UnwrapFirstPair ==
    /\ (pc = "unwrappedRaw")
          => /\ unwrapped = NoBuffer <=> ~HasPair(payload)
             /\ HasPair(payload)
                   => unwrapped = destuff(payload, FirstPair(payload) + 2)
    /\ (pc = "unwrappedBehind" /\ ~HasPair(buffer)) => unwrapped = payload

\* a prefix ending in 0xFE in front of the frame of a payload holding 0xFE
C23_Witness ==
    /\ pc = "unwrappedBehind" /\ ~HasPair(buffer)
    /\ Len(buffer) >= 1 /\ buffer[Len(buffer)] = DLE
    /\ CountDle(payload) >= 1
    /\ unwrapped = payload

-----------------------------------------------------------------------------
(* Further claims about the receivers, checked under SpecStream.           *)

RECURSIVE RawBytes(_)
\* the raw bytes of the packets, concatenated in order
RawBytes(packets) ==
    IF packets = <<>> THEN <<>>
    ELSE Head(packets).rawData \o RawBytes(Tail(packets))

\* C24: while the bytes received so far hold no adjacent 0xFE,0x02 pair, the
\* raw bytes of all packets emitted so far, in emission order, followed by
\* the receive buffer are exactly the bytes received so far, in arrival
\* order: TcpServer and TcpClient lose, duplicate and reorder nothing.
C24_BytesConserved ==
    (endpoint \in Reassemblers /\ ~HasPair(sent))
        => RawBytes(emitted) \o receiveBuffer = sent

\* a packet that arrived in two chunks, and bytes still waiting
C24_Witness ==
    /\ endpoint = "TcpClient" /\ ~HasPair(sent)
    /\ chunks >= 3
    /\ slice(sent, 0, 18) = StreamV31
    /\ Len(emitted) >= 1 /\ emitted[1].rawData = StreamV31
    /\ Len(last.input) > 18 /\ Len(last.passes) >= 2
    /\ Len(receiveBuffer) > 0

\* C25: the receive buffer of the TcpServer is empty at the end of every
\* handleData call, so each call works on its own chunk alone.
C25_ServerBufferEmpty ==
    (endpoint = "TcpServer")
        => /\ receiveBuffer = <<>>
           /\ last.conn # 0 => last.input = last.data

\* the 13 bytes behind a 5-byte fragment arrive and are flushed on their own
C25_Witness ==
    /\ endpoint = "TcpServer" /\ chunks >= 2
    /\ last.data = slice(StreamV31, 5, 18)
    /\ Len(emitted) = 2
    /\ emitted[1].rawData = slice(StreamV31, 0, 5)
    /\ emitted[2].rawData = slice(StreamV31, 5, 18)
    /\ receiveBuffer = <<>>

\* C26: the extraction loop of TcpServer.handleData and TcpClient.handleData
\* terminates: every pass but the last strictly shortens the buffer and hands
\* it to the next pass, a pass that does not go on is the last, and no pass
\* emits more than one packet.
C26_LoopTerminates ==
    (endpoint \in Reassemblers /\ last.conn # 0)
        => /\ Len(last.passes) <= Len(last.input)
           /\ \A k \in 1..Len(last.passes) :
                 LET p == last.passes[k]
                 IN  /\ Len(p.packets) <= 1
                     /\ p.continue => Len(p.after) < Len(p.before)
                     /\ ~p.continue => k = Len(last.passes)
                     /\ k < Len(last.passes)
                           => last.passes[k + 1].before = p.after
           /\ Len(last.passes) >= 1
                 => /\ last.passes[1].before = last.input
                    /\ last.passes[Len(last.passes)].after = receiveBuffer

\* one pass takes a packet and a second pass stops on what is left
C26_Witness ==
    /\ endpoint = "TcpClient" /\ last.conn # 0
    /\ Len(last.passes) >= 2
    /\ last.passes[1].continue
    /\ ~last.passes[Len(last.passes)].continue
    /\ Len(receiveBuffer) > 0

-----------------------------------------------------------------------------
(* Claim about start() and stop(), checked under SpecLife.                 *)

\* C28: under every interleaving of start(), stop() and the 'listening'
\* callback, at most one socket or listener created by the instance is open,
\* and it is the one held in the field, which stop() will close.
C28_StartIdempotent ==
    /\ Cardinality(opened) <= 1
    /\ opened # {} => opened = {socket}

=============================================================================
